---- MODULE Spec2Model ----
(***************************************************************************)
(* reference_metric.py: the coordinate-system catalog.                     *)
(*                                                                         *)
(* The module-level state is xx, xxCart, xxSph, scalefactor_orthog, xxmin, *)
(* xxmax and the registered parameter CoordSystem.  reference_metric()     *)
(* populates the arrays for the system the parameter names;                *)
(* UnitVectors3D() derives the unit vectors from xxCart and xx.            *)
(*                                                                         *)
(* A sympy expression is a tree: a record [op, nm, a] with op the node     *)
(* kind, nm the name of a leaf, a the sequence of its arguments.  Two      *)
(* sympy Symbols are the same symbol iff they have the same name and the   *)
(* same assumptions: "sym" is a symbol without assumptions, "possym" one   *)
(* created with positive=True, "par" one made by par.Cparameters.          *)
(***************************************************************************)
EXTENDS Integers, Sequences, FiniteSets, TLC

VARIABLES CoordSystem, xx, xxCart, xxSph, scalefactor_orthog, xxmin, xxmax,
          xxhats3D, stdout, halted, active, prev

vars == <<CoordSystem, xx, xxCart, xxSph, scalefactor_orthog, xxmin, xxmax,
          xxhats3D, stdout, halted, active, prev>>

\* ixp.declarerank1("xx",DIM=4), ixp.zerorank1(DIM=4)
DIM == 4

\* the names the if/elif chain of reference_metric() accepts
Supported ==
    {"Spherical", "SinhSpherical", "SinhSphericalv2",
     "Cylindrical", "SinhCylindrical", "SinhCylindricalv2",
     "SymTP", "SinhSymTP", "Cartesian"}

\* values the CoordSystem parameter is given: the supported names and some
\* that are not (string comparison is case sensitive)
ParamValues == Supported \cup {"NotARealSystem", "spherical"}

-----------------------------------------------------------------------------
(* sympy expressions *)

Leaf(op, nm) == [op |-> op, nm |-> nm, a |-> <<>>]
Node1(op, x) == [op |-> op, nm |-> "", a |-> <<x>>]
Node2(op, x, y) == [op |-> op, nm |-> "", a |-> <<x, y>>]

\* sp.sympify(0), sp.sympify(1), the literal 2, and sympy's nan (0/0)
Zero == Leaf("int", "0")
One == Leaf("int", "1")
Two == Leaf("int", "2")
NaN == Leaf("nan", "")

\* sp.symbols(nm) / sp.symbols(nm, positive=True)
Symbol(nm, positive) == Leaf(IF positive THEN "possym" ELSE "sym", nm)

\* par.Cparameters("REAL", thismodule, [nm]): a free symbolic constant
Cparameters(nm) == Leaf("par", nm)

\* The arithmetic of sympy evaluates the trivial cases when it builds a node.
Neg(x) ==
    IF x = Zero THEN Zero
    ELSE IF x = NaN THEN NaN
    ELSE IF x.op = "neg" THEN x.a[1]
    ELSE Node1("neg", x)

Add(x, y) ==
    IF x = NaN \/ y = NaN THEN NaN
    ELSE IF x = Zero THEN y
    ELSE IF y = Zero THEN x
    ELSE Node2("add", x, y)

Sub(x, y) ==
    IF x = NaN \/ y = NaN THEN NaN
    ELSE IF y = Zero THEN x
    ELSE IF x = Zero THEN Neg(y)
    ELSE Node2("sub", x, y)

Mul(x, y) ==
    IF x = NaN \/ y = NaN THEN NaN
    ELSE IF x = Zero \/ y = Zero THEN Zero
    ELSE IF x = One THEN y
    ELSE IF y = One THEN x
    ELSE Node2("mul", x, y)

Div(x, y) ==
    IF x = NaN \/ y = NaN THEN NaN
    ELSE IF y = Zero THEN (IF x = Zero THEN NaN ELSE Node2("div", x, y))
    ELSE IF x = Zero THEN Zero
    ELSE IF y = One THEN x
    ELSE Node2("div", x, y)

\* x**2
Sqr(x) ==
    IF x = NaN THEN NaN
    ELSE IF x = Zero THEN Zero
    ELSE IF x = One THEN One
    ELSE Node1("sqr", x)

Sqrt(x) ==
    IF x = NaN THEN NaN
    ELSE IF x = Zero THEN Zero
    ELSE IF x = One THEN One
    ELSE Node1("sqrt", x)

Sin(x) == IF x = NaN THEN NaN ELSE IF x = Zero THEN Zero ELSE Node1("sin", x)
Cos(x) == IF x = NaN THEN NaN ELSE IF x = Zero THEN One ELSE Node1("cos", x)
Exp(x) == IF x = NaN THEN NaN ELSE IF x = Zero THEN One ELSE Node1("exp", x)
Atan2(y, x) == IF x = NaN \/ y = NaN THEN NaN ELSE Node2("atan2", y, x)

\* sp.diff(e, x): x is a Symbol; a leaf is the variable only if it is that
\* very symbol (same name, same assumptions)
RECURSIVE diff(_, _)
diff(e, x) ==
    CASE e.op \in {"sym", "possym"} -> IF e = x THEN One ELSE Zero
      [] e.op \in {"int", "par"} -> Zero
      [] e.op = "nan" -> NaN
      [] e.op = "neg" -> Neg(diff(e.a[1], x))
      [] e.op = "add" -> Add(diff(e.a[1], x), diff(e.a[2], x))
      [] e.op = "sub" -> Sub(diff(e.a[1], x), diff(e.a[2], x))
      [] e.op = "mul" -> Add(Mul(diff(e.a[1], x), e.a[2]),
                             Mul(e.a[1], diff(e.a[2], x)))
      [] e.op = "div" -> Sub(Div(diff(e.a[1], x), e.a[2]),
                             Div(Mul(e.a[1], diff(e.a[2], x)), Sqr(e.a[2])))
      [] e.op = "sqr" -> Mul(Mul(Two, e.a[1]), diff(e.a[1], x))
      [] e.op = "sqrt" -> Div(diff(e.a[1], x), Mul(Two, e))
      [] e.op = "sin" -> Mul(Cos(e.a[1]), diff(e.a[1], x))
      [] e.op = "cos" -> Neg(Mul(Sin(e.a[1]), diff(e.a[1], x)))
      [] e.op = "exp" -> Mul(e, diff(e.a[1], x))
      [] e.op = "atan2" ->
            Div(Sub(Mul(e.a[2], diff(e.a[1], x)), Mul(e.a[1], diff(e.a[2], x))),
                Add(Sqr(e.a[2]), Sqr(e.a[1])))

\* sp.simplify(e): rebuilds the tree bottom-up; the rewriting that the
\* positivity assumptions enable is sqrt(s**2) -> s for a positive symbol s
RECURSIVE simplify(_)
simplify(e) ==
    CASE e.op \in {"sym", "possym", "int", "par", "nan"} -> e
      [] e.op = "neg" -> Neg(simplify(e.a[1]))
      [] e.op = "add" -> Add(simplify(e.a[1]), simplify(e.a[2]))
      [] e.op = "sub" -> Sub(simplify(e.a[1]), simplify(e.a[2]))
      [] e.op = "mul" -> Mul(simplify(e.a[1]), simplify(e.a[2]))
      [] e.op = "div" -> Div(simplify(e.a[1]), simplify(e.a[2]))
      [] e.op = "sqr" -> Sqr(simplify(e.a[1]))
      [] e.op = "sqrt" ->
            LET s == simplify(e.a[1])
            IN IF s.op = "sqr" /\ s.a[1].op = "possym" THEN s.a[1] ELSE Sqrt(s)
      [] e.op = "sin" -> Sin(simplify(e.a[1]))
      [] e.op = "cos" -> Cos(simplify(e.a[1]))
      [] e.op = "exp" -> Exp(simplify(e.a[1]))
      [] e.op = "atan2" -> Atan2(simplify(e.a[1]), simplify(e.a[2]))

-----------------------------------------------------------------------------
(* the per-system formulas of reference_metric() *)

\* A * (exp(x/W) - exp(-x/W)) / (exp(1/W) - exp(-1/W))
SinhLaw(A, x, W) ==
    Div(Mul(A, Sub(Exp(Div(x, W)), Exp(Div(Neg(x), W)))),
        Sub(Exp(Div(One, W)), Exp(Div(Neg(One), W))))

\* A * ( c*x + (exp(x/W) - exp(-x/W)) / (exp(1/W) - exp(-1/W)) )
SinhLawv2(A, c, x, W) ==
    Mul(A, Add(Mul(c, x),
               Div(Sub(Exp(Div(x, W)), Exp(Div(Neg(x), W))),
                   Sub(Exp(Div(One, W)), Exp(Div(Neg(One), W))))))

\* Each branch takes the arrays as they are when the call starts
\* (c = [xx, xxCart, xxSph, scalefactor_orthog]) and gives them as the branch
\* leaves them, together with the values the branch assigns to the names
\* xxmin and xxmax (l_xxmin, l_xxmax).

SphericalBranch(name, c) ==
    LET xx1 == [c.xx EXCEPT ![0] = Symbol("xx0", TRUE), ![1] = Symbol("xx1", TRUE)]
        AMPL == Cparameters("AMPL")
        SINHW == Cparameters("SINHW")
        const_dr == Cparameters("const_dr")
        r == CASE name = "Spherical" -> xx1[0]
               [] name = "SinhSpherical" -> SinhLaw(AMPL, xx1[0], SINHW)
               [] name = "SinhSphericalv2" -> SinhLawv2(AMPL, const_dr, xx1[0], SINHW)
        th == xx1[1]
        ph == xx1[2]
        xxSph1 == [c.xxSph EXCEPT ![0] = r, ![1] = th, ![2] = ph]
    IN [xx |-> xx1,
        xxSph |-> xxSph1,
        xxCart |-> [c.xxCart EXCEPT
                      ![0] = Mul(Mul(xxSph1[0], Sin(xxSph1[1])), Cos(xxSph1[2])),
                      ![1] = Mul(Mul(xxSph1[0], Sin(xxSph1[1])), Sin(xxSph1[2])),
                      ![2] = Mul(xxSph1[0], Cos(xxSph1[1]))],
        scalefactor_orthog |-> [c.scalefactor_orthog EXCEPT
                      ![0] = diff(xxSph1[0], xx1[0]),
                      ![1] = xxSph1[0],
                      ![2] = Mul(xxSph1[0], Sin(xxSph1[1]))],
        l_xxmin |-> <<"0.0", "0.0", "0.0">>,
        l_xxmax |-> IF name = "Spherical"
                    THEN <<"params.RMAX", "M_PI", "2.0*M_PI">>
                    ELSE <<"1.0", "M_PI", "2.0*M_PI">>]

CylindricalBranch(name, c) ==
    LET xx1 == [c.xx EXCEPT ![0] = Symbol("xx0", TRUE)]
        AMPLRHO == Cparameters("AMPLRHO")
        SINHWRHO == Cparameters("SINHWRHO")
        AMPLZ == Cparameters("AMPLZ")
        SINHWZ == Cparameters("SINHWZ")
        const_drho == Cparameters("const_drho")
        const_dz == Cparameters("const_dz")
        RHOCYL == CASE name = "Cylindrical" -> xx1[0]
                    [] name = "SinhCylindrical" -> SinhLaw(AMPLRHO, xx1[0], SINHWRHO)
                    [] name = "SinhCylindricalv2" ->
                          SinhLawv2(AMPLRHO, const_drho, xx1[0], SINHWRHO)
        PHICYL == xx1[1]
        ZCYL == CASE name = "Cylindrical" -> xx1[2]
                  [] name = "SinhCylindrical" -> SinhLaw(AMPLZ, xx1[2], SINHWZ)
                  [] name = "SinhCylindricalv2" ->
                        SinhLawv2(AMPLZ, const_dz, xx1[2], SINHWZ)
        r == Sqrt(Add(Sqr(RHOCYL), Sqr(ZCYL)))
    IN [xx |-> xx1,
        xxCart |-> [c.xxCart EXCEPT
                      ![0] = Mul(RHOCYL, Cos(PHICYL)),
                      ![1] = Mul(RHOCYL, Sin(PHICYL)),
                      ![2] = ZCYL],
        xxSph |-> [c.xxSph EXCEPT
                      ![0] = r,
                      ![1] = Cos(Div(ZCYL, r)),
                      ![2] = PHICYL],
        scalefactor_orthog |-> [c.scalefactor_orthog EXCEPT
                      ![0] = diff(RHOCYL, xx1[0]),
                      ![1] = RHOCYL,
                      ![2] = diff(ZCYL, xx1[2])],
        l_xxmin |-> IF name = "Cylindrical"
                    THEN <<"0.0", "0.0", "params.ZMIN">>
                    ELSE <<"0.0", "0.0", "-1.0">>,
        l_xxmax |-> IF name = "Cylindrical"
                    THEN <<"params.RHOMAX", "2.0*M_PI", "params.ZMAX">>
                    ELSE <<"1.0", "2.0*M_PI", "1.0">>]

SymTPBranch(name, c) ==
    LET xx1 == [c.xx EXCEPT ![0] = Symbol("xx0", TRUE), ![1] = Symbol("xx1", TRUE)]
        bScale == Symbol("bScale", TRUE)
        AW == Cparameters("AW")
        AA == IF name = "SinhSymTP"
              THEN Div(Sub(Exp(Div(xx1[0], AW)), Exp(Div(Neg(xx1[0]), AW))), Two)
              ELSE xx1[0]
        var1 == Sqrt(Add(Sqr(AA), Sqr(Mul(bScale, Sin(xx1[1])))))
        var2 == Sqrt(Add(Sqr(AA), Sqr(bScale)))
        RHOSYMTP == Mul(AA, Sin(xx1[1]))
        PHSYMTP == xx1[2]
        ZSYMTP == Mul(var2, Cos(xx1[1]))
        r == Sqrt(Add(Sqr(RHOSYMTP), Sqr(ZSYMTP)))
    IN [xx |-> xx1,
        xxCart |-> [c.xxCart EXCEPT
                      ![0] = Mul(Mul(AA, Sin(xx1[1])), Cos(xx1[2])),
                      ![1] = Mul(Mul(AA, Sin(xx1[1])), Sin(xx1[2])),
                      ![2] = Mul(var2, Cos(xx1[1]))],
        xxSph |-> [c.xxSph EXCEPT
                      ![0] = r,
                      ![1] = Cos(Div(ZSYMTP, r)),
                      ![2] = PHSYMTP],
        scalefactor_orthog |-> [c.scalefactor_orthog EXCEPT
                      ![0] = Div(Mul(diff(AA, xx1[0]), var1), var2),
                      ![1] = var1,
                      ![2] = Mul(AA, Sin(xx1[1]))],
        l_xxmin |-> <<"0.0", "0.0", "0.0">>,
        l_xxmax |-> <<"params.AMAX", "M_PI", "2.0*M_PI">>]

\* CartesianBranch with xxCart built from newly declared symbols xx0, xx1,
\* xx2 instead of the symbols stored in xx
CartesianBranch_declared(name, c) ==
    LET r == Sqrt(Add(Add(Sqr(c.xx[0]), Sqr(c.xx[1])), Sqr(c.xx[2])))
    IN [xx |-> c.xx,
        xxCart |-> [c.xxCart EXCEPT ![0] = Symbol("xx0", FALSE),
                                    ![1] = Symbol("xx1", FALSE),
                                    ![2] = Symbol("xx2", FALSE)],
        xxSph |-> [c.xxSph EXCEPT
                      ![0] = r,
                      ![1] = Cos(Div(c.xx[2], r)),
                      ![2] = Atan2(c.xx[1], c.xx[0])],
        scalefactor_orthog |-> [c.scalefactor_orthog EXCEPT
                      ![0] = One, ![1] = One, ![2] = One],
        l_xxmin |-> <<"params.xmin", "params.ymin", "params.zmin">>,
        l_xxmax |-> <<"params.xmax", "params.ymax", "params.zmax">>]

\* CartesianBranch without the assignment to scalefactor_orthog[2]
CartesianBranch_skip(name, c) ==
    LET r == Sqrt(Add(Add(Sqr(c.xx[0]), Sqr(c.xx[1])), Sqr(c.xx[2])))
    IN [xx |-> c.xx,
        xxCart |-> [c.xxCart EXCEPT ![0] = c.xx[0], ![1] = c.xx[1], ![2] = c.xx[2]],
        xxSph |-> [c.xxSph EXCEPT
                      ![0] = r,
                      ![1] = Cos(Div(c.xx[2], r)),
                      ![2] = Atan2(c.xx[1], c.xx[0])],
        scalefactor_orthog |-> [c.scalefactor_orthog EXCEPT ![0] = One, ![1] = One],
        l_xxmin |-> <<"params.xmin", "params.ymin", "params.zmin">>,
        l_xxmax |-> <<"params.xmax", "params.ymax", "params.zmax">>]

\* CartesianBranch with xxSph[1] assigned before xxSph[0]: it reads the
\* xxSph[0] the previous selection left
CartesianBranch_reordered(name, c) ==
    LET r == Sqrt(Add(Add(Sqr(c.xx[0]), Sqr(c.xx[1])), Sqr(c.xx[2])))
    IN [xx |-> c.xx,
        xxCart |-> [c.xxCart EXCEPT ![0] = c.xx[0], ![1] = c.xx[1], ![2] = c.xx[2]],
        xxSph |-> [c.xxSph EXCEPT
                      ![1] = Cos(Div(c.xx[2], c.xxSph[0])),
                      ![0] = r,
                      ![2] = Atan2(c.xx[1], c.xx[0])],
        scalefactor_orthog |-> [c.scalefactor_orthog EXCEPT
                      ![0] = One, ![1] = One, ![2] = One],
        l_xxmin |-> <<"params.xmin", "params.ymin", "params.zmin">>,
        l_xxmax |-> <<"params.xmax", "params.ymax", "params.zmax">>]

CartesianBranch(name, c) ==
    LET r == Sqrt(Add(Add(Sqr(c.xx[0]), Sqr(c.xx[1])), Sqr(c.xx[2])))
    IN [xx |-> c.xx,
        xxCart |-> [c.xxCart EXCEPT ![0] = c.xx[0], ![1] = c.xx[1], ![2] = c.xx[2]],
        xxSph |-> [c.xxSph EXCEPT
                      ![0] = r,
                      ![1] = Cos(Div(c.xx[2], r)),
                      ![2] = Atan2(c.xx[1], c.xx[0])],
        scalefactor_orthog |-> [c.scalefactor_orthog EXCEPT
                      ![0] = One, ![1] = One, ![2] = One],
        l_xxmin |-> <<"params.xmin", "params.ymin", "params.zmin">>,
        l_xxmax |-> <<"params.xmax", "params.ymax", "params.zmax">>]

\* the if/elif chain over the supported names
Select(name, c) ==
    CASE name \in {"Spherical", "SinhSpherical", "SinhSphericalv2"} ->
            SphericalBranch(name, c)
      [] name \in {"Cylindrical", "SinhCylindrical", "SinhCylindricalv2"} ->
            CylindricalBranch(name, c)
      [] name \in {"SymTP", "SinhSymTP"} -> SymTPBranch(name, c)
      [] name = "Cartesian" -> CartesianBranch(name, c)

\* the four module-level arrays as one record
Catalog == [xx |-> xx, xxCart |-> xxCart, xxSph |-> xxSph,
            scalefactor_orthog |-> scalefactor_orthog]

\* the state right after the module is imported
FreshCatalog ==
    [xx |-> [i \in 0 .. DIM - 1 |->
                Symbol(CASE i = 0 -> "xx0" [] i = 1 -> "xx1"
                         [] i = 2 -> "xx2" [] i = 3 -> "xx3", FALSE)],
     xxCart |-> [i \in 0 .. DIM - 1 |-> Zero],
     xxSph |-> [i \in 0 .. DIM - 1 |-> Zero],
     scalefactor_orthog |-> [i \in 0 .. DIM - 1 |-> Zero]]

-----------------------------------------------------------------------------
(* the state machine *)

Init ==
    /\ CoordSystem = "Spherical"
    /\ xx = FreshCatalog.xx
    /\ xxCart = FreshCatalog.xxCart
    /\ xxSph = FreshCatalog.xxSph
    /\ scalefactor_orthog = FreshCatalog.scalefactor_orthog
    /\ xxmin = <<>>
    /\ xxmax = <<>>
    /\ xxhats3D = <<>>
    /\ stdout = ""
    /\ halted = FALSE
    /\ active = "none"
    /\ prev = "none"

\* reference_metric with an else branch that falls back to the registered
\* default system instead of exiting
reference_metric_fallback ==
    /\ ~halted
    /\ \E name \in ParamValues :
          /\ CoordSystem' = name
          /\ LET used == IF name \in Supported THEN name ELSE "Spherical"
                 r == Select(used, Catalog)
             IN /\ xx' = r.xx
                /\ xxCart' = r.xxCart
                /\ xxSph' = r.xxSph
                /\ scalefactor_orthog' = r.scalefactor_orthog
                /\ active' = used
                /\ prev' = active
                /\ UNCHANGED <<stdout, halted>>
    /\ UNCHANGED <<xxmin, xxmax, xxhats3D>>

\* reference_metric(): the parameter holds the name the caller registered
\* before the call (name); the names xxmin and xxmax assigned in the body
\* are local to the function, the module-level lists are not touched;
\* exit(1) ends the process.  active records the last name that a call
\* completed for, prev the one that was active when that call started.
reference_metric ==
    /\ ~halted
    /\ \E name \in ParamValues :
          /\ CoordSystem' = name
          /\ IF name \in Supported
             THEN LET r == Select(name, Catalog)
                  IN /\ xx' = r.xx
                     /\ xxCart' = r.xxCart
                     /\ xxSph' = r.xxSph
                     /\ scalefactor_orthog' = r.scalefactor_orthog
                     /\ active' = name
                     /\ prev' = active
                     /\ UNCHANGED <<stdout, halted>>
             ELSE /\ stdout' = "CoordSystem == " \o name \o " is not supported."
                  /\ halted' = TRUE
                  /\ UNCHANGED <<xx, xxCart, xxSph, scalefactor_orthog, active, prev>>
    /\ UNCHANGED <<xxmin, xxmax, xxhats3D>>

\* the matrix UnitVectors3D() builds from the arrays cart and x
UnitVectors(cart, x) ==
    [i \in 0 .. 2 |->
        LET numer == [j \in 0 .. 2 |-> diff(cart[j], x[i])]
            sum == Add(Add(Add(Zero, Sqr(numer[0])), Sqr(numer[1])), Sqr(numer[2]))
            norm == simplify(Sqrt(simplify(sum)))
        IN [j \in 0 .. 2 |-> Div(numer[j], norm)]]

\* UnitVectors3D with xxhats3D bound to xxCart instead of a new matrix: the
\* normalised first column is written into xxCart[0..2]
UnitVectors3D_inplace ==
    /\ ~halted
    /\ xxhats3D' = <<UnitVectors(xxCart, xx)>>
    /\ xxCart' = [k \in 0 .. DIM - 1 |->
                    IF k < 3 THEN UnitVectors(xxCart, xx)[k][0] ELSE xxCart[k]]
    /\ UNCHANGED <<CoordSystem, xx, xxSph, scalefactor_orthog,
                   xxmin, xxmax, stdout, halted, active, prev>>

\* UnitVectors3D(): returns a new matrix (xxhats3D holds the last one returned)
UnitVectors3D ==
    /\ ~halted
    /\ xxhats3D' = <<UnitVectors(xxCart, xx)>>
    /\ UNCHANGED <<CoordSystem, xx, xxCart, xxSph, scalefactor_orthog,
                   xxmin, xxmax, stdout, halted, active, prev>>

Next == reference_metric \/ UnitVectors3D

Spec == Init /\ [][Next]_vars

-----------------------------------------------------------------------------
(* helpers of the properties *)

\* what a successful call for name leaves, started from the freshly loaded module
FromFresh(name) == Select(name, FreshCatalog)

\* what a successful call for name leaves when only the symbols in xx are
\* kept and every other array is back at its initial zeros
FromSymbols(name) == Select(name, [FreshCatalog EXCEPT !.xx = xx])

\* the symbol leaves of an expression
RECURSIVE Syms(_)
Syms(e) ==
    IF e.op \in {"sym", "possym"} THEN {e}
    ELSE UNION {Syms(e.a[k]) : k \in 1 .. Len(e.a)}

\* the parameters (par.Cparameters) that occur in an expression
RECURSIVE Pars(_)
Pars(e) ==
    IF e.op = "par" THEN {e.nm}
    ELSE UNION {Pars(e.a[k]) : k \in 1 .. Len(e.a)}

\* the slot of xx a logical-coordinate symbol is named after
Slot(nm) == CASE nm = "xx0" -> 0 [] nm = "xx1" -> 1 [] nm = "xx2" -> 2 [] nm = "xx3" -> 3

SAdd(s, t) ==
    IF s = 0 THEN {t} ELSE IF t = 0 THEN {s} ELSE IF s = t THEN {s} ELSE {-1, 0, 1}

\* exp(p/q) - exp(-p/q): has the sign of p/q
IsSinhDiff(e) ==
    /\ e.op = "sub"
    /\ e.a[1].op = "exp" /\ e.a[2].op = "exp"
    /\ e.a[1].a[1].op = "div"
    /\ e.a[2].a[1] = Div(Neg(e.a[1].a[1].a[1]), e.a[1].a[1].a[2])

\* The signs the value of e can have, wherever it is defined, when each
\* parameter p has the sign env[p], a positive symbol is > 0 and any other
\* symbol is any real: an over-approximation, so a one-element result is
\* the sign of e.
RECURSIVE Signs(_, _)
Signs(e, env) ==
    CASE e.op = "possym" -> {1}
      [] e.op = "sym" -> {-1, 0, 1}
      [] e.op = "par" -> {env[e.nm]}
      [] e.op = "int" -> IF e = Zero THEN {0} ELSE {1}
      [] e.op = "nan" -> {}
      [] e.op = "neg" -> {-s : s \in Signs(e.a[1], env)}
      [] e.op = "add" ->
            UNION {SAdd(s, t) : s \in Signs(e.a[1], env), t \in Signs(e.a[2], env)}
      [] e.op = "sub" ->
            IF IsSinhDiff(e) THEN Signs(e.a[1].a[1], env)
            ELSE UNION {SAdd(s, -t) : s \in Signs(e.a[1], env), t \in Signs(e.a[2], env)}
      [] e.op = "mul" ->
            {s * t : s \in Signs(e.a[1], env), t \in Signs(e.a[2], env)}
      [] e.op = "div" ->
            {s * t : s \in Signs(e.a[1], env), t \in Signs(e.a[2], env) \ {0}}
      [] e.op = "sqr" -> {s * s : s \in Signs(e.a[1], env)}
      [] e.op = "sqrt" -> Signs(e.a[1], env) \cap {0, 1}
      [] e.op = "exp" -> {1}
      [] e.op \in {"sin", "cos", "atan2"} -> {-1, 0, 1}

\* the Euclidean norm of the derivative of xxCart[0..2] with respect to xx[i]
NormOfDerivative(i) ==
    Sqrt(Add(Add(Sqr(diff(xxCart[0], xx[i])), Sqr(diff(xxCart[1], xx[i]))),
             Sqr(diff(xxCart[2], xx[i]))))

-----------------------------------------------------------------------------
(* the properties *)

CatalogVars == <<xx, xxCart, xxSph, scalefactor_orthog>>

\* C1: whatever was selected before, the arrays after a successful selection
\* of N are those that selecting N once in the freshly loaded module gives
\* (xx with its assumptions, xxCart, xxSph, scalefactor_orthog).
C1_NoAccumulation ==
    active # "none" =>
        /\ xx = FromFresh(active).xx
        /\ xxCart = FromFresh(active).xxCart
        /\ xxSph = FromFresh(active).xxSph
        /\ scalefactor_orthog = FromFresh(active).scalefactor_orthog

\* C2: after a successful selection the module-level xxmin and xxmax hold
\* the three lower and the three upper bounds of the selected system.
C2_BoundsPublished ==
    active # "none" =>
        /\ xxmin = FromFresh(active).l_xxmin
        /\ xxmax = FromFresh(active).l_xxmax

\* C3: a call with an unsupported name prints the name and halts, leaving
\* xx, xxCart, xxSph and scalefactor_orthog (and the active system) as they
\* were; nothing else halts the process.
C3_UnsupportedHalts ==
    [][/\ CoordSystem' \notin Supported =>
            /\ halted'
            /\ stdout' = "CoordSystem == " \o CoordSystem' \o " is not supported."
            /\ UNCHANGED CatalogVars
            /\ UNCHANGED active
       /\ halted' => CoordSystem' \notin Supported]_vars

C3_Witness ==
    /\ halted
    /\ CoordSystem = "NotARealSystem"
    /\ active = "Cylindrical"
    /\ xxCart[2] = xx[2]

\* C4: either nothing has been selected and components 0..2 of xxCart,
\* xxSph and scalefactor_orthog are the initial zeros, or all of them are
\* the ones the active system defines from the symbols now in xx: nothing
\* is left over from a system selected earlier.
C4_OneActiveSystem ==
    \/ /\ active = "none"
       /\ \A i \in 0 .. 2 :
             xxCart[i] = Zero /\ xxSph[i] = Zero /\ scalefactor_orthog[i] = Zero
    \/ /\ active \in Supported
       /\ xx = FromSymbols(active).xx
       /\ xxCart = FromSymbols(active).xxCart
       /\ xxSph = FromSymbols(active).xxSph
       /\ scalefactor_orthog = FromSymbols(active).scalefactor_orthog

C4_Witness ==
    /\ active = "Cylindrical"
    /\ prev = "SinhSymTP"
    /\ xx[1].op = "possym"

\* C5 as stated: after a successful selection xxCart and scalefactor_orthog
\* have exactly 3 components, all set by the call.
C5_ExactlyThree ==
    active # "none" =>
        /\ DOMAIN xxCart = 0 .. 2
        /\ DOMAIN scalefactor_orthog = 0 .. 2
        /\ \A i \in 0 .. 2 : xxCart[i] \notin {Zero, NaN}
        /\ \A i \in 0 .. 2 : scalefactor_orthog[i] \notin {Zero, NaN}

\* C5 amended: xxCart and scalefactor_orthog have DIM = 4 slots; after a
\* successful selection slots 0..2 hold expressions set by the call and
\* slot 3 is still the initial zero.
C5_ThreeOfFour ==
    active # "none" =>
        /\ DOMAIN xxCart = 0 .. DIM - 1
        /\ DOMAIN scalefactor_orthog = 0 .. DIM - 1
        /\ \A i \in 0 .. 2 : xxCart[i] \notin {Zero, NaN}
        /\ \A i \in 0 .. 2 : scalefactor_orthog[i] \notin {Zero, NaN}
        /\ xxCart[3] = Zero
        /\ scalefactor_orthog[3] = Zero

C5_Witness ==
    /\ active = "Cartesian"
    /\ prev = "none"
    /\ scalefactor_orthog[2] = One

\* C6: while Cartesian is active, xxCart[i] is the symbol stored in xx[i]
\* and scalefactor_orthog[i] is 1, for i = 0, 1, 2.
C6_CartesianIdentity ==
    active = "Cartesian" =>
        \A i \in 0 .. 2 : xxCart[i] = xx[i] /\ scalefactor_orthog[i] = One

C6_Witness ==
    /\ active = "Cartesian"
    /\ xx[0].op = "possym"
    /\ xx[1].op = "sym"
    /\ xxCart[0] = xx[0]

\* C7: a successful call for the system that is already active changes
\* none of xx, xxCart, xxSph, scalefactor_orthog, xxmin, xxmax.
C7_Idempotent ==
    [][(active # "none" /\ active' = active /\ ~halted') =>
            UNCHANGED <<xx, xxCart, xxSph, scalefactor_orthog, xxmin, xxmax>>]_vars

C7_Witness ==
    /\ active = "Spherical"
    /\ prev = "Spherical"
    /\ scalefactor_orthog[1] = xx[0]

\* C8: a step that changes the matrix UnitVectors3D returned changes nothing
\* of the catalog, and the matrix is the one xxCart and xx determine.
C8_UnitVectorsPure ==
    [][xxhats3D' # xxhats3D =>
            /\ UNCHANGED <<xx, xxCart, xxSph, scalefactor_orthog,
                           xxmin, xxmax, CoordSystem>>
            /\ xxhats3D' = <<UnitVectors(xxCart, xx)>>]_vars

C8_Witness ==
    /\ active = "SymTP"
    /\ xxhats3D = <<UnitVectors(xxCart, xx)>>
    /\ xxhats3D[1][2][2] = Zero

\* C9: for the active system and i in 0..2, scalefactor_orthog[i] is the
\* Euclidean norm of the derivative of xxCart with respect to xx[i], hence
\* >= 0, whatever the signs of the free parameters: a scale factor of one
\* definite sign has a sign the norm can have.
C9_ScaleFactorIsNorm ==
    active # "none" =>
        \A i \in 0 .. 2 :
            \A env \in [Pars(scalefactor_orthog[i]) \cup Pars(NormOfDerivative(i))
                            -> {-1, 1}] :
                LET s == Signs(scalefactor_orthog[i], env)
                IN Cardinality(s) = 1 => s \subseteq Signs(NormOfDerivative(i), env)

\* C10: every logical-coordinate symbol in xxCart[0..2] is the symbol now
\* stored in its slot of xx, and once something is selected xxCart depends
\* on each of xx[0..2]; a slot of xx[0..1] that holds a positive symbol
\* keeps one, and xx[2], xx[3] are never replaced.
C10_SymbolsCurrent ==
    /\ [](/\ \A j \in 0 .. 2 : \A y \in Syms(xxCart[j]) :
                y.nm \in {"xx0", "xx1", "xx2", "xx3"} => y = xx[Slot(y.nm)]
          /\ active # "none" =>
                \A i \in 0 .. 2 : \E j \in 0 .. 2 : diff(xxCart[j], xx[i]) # Zero)
    /\ [][/\ \A i \in 0 .. 1 : xx[i].op = "possym" => xx'[i].op = "possym"
          /\ xx'[2] = xx[2]
          /\ xx'[3] = xx[3]]_vars

C10_Witness ==
    /\ active = "Cartesian"
    /\ prev = "Cylindrical"
    /\ xx[1].op = "possym"
    /\ diff(xxCart[1], xx[1]) = One

====
